---------------------------- MODULE Spec2Model ----------------------------
(***************************************************************************)
(* A model of src/price_tool.py: the Streamlit pricing page, its cached    *)
(* exchange-rate fetchers and its price table calculator.                  *)
(*                                                                         *)
(* Numbers.  Python floats are modelled as exact rationals <<n, d>> with   *)
(* d > 0 and gcd(n, d) = 1, so that division and rounding are computed and *)
(* not assumed; binary floating-point error is not modelled.               *)
(* Python's None is the empty tuple <<>> and a value x is <<x>>.           *)
(*                                                                         *)
(* HTTP.  What a GET yields is an input of the step that issues it: the    *)
(* bank page, the ECB table and the Yahoo quote are drawn anew each time a *)
(* cached function misses its cache.                                       *)
(*                                                                         *)
(* Block structure.  Lines 176-207 of the file stand at column 0, between  *)
(* the body of `if cost > 0:` (line 154) and its `else:` (line 208).  The  *)
(* page is modelled with those lines as the rest of the body of the `if`,  *)
(* the one nesting under which the `else:` on line 208 has an `if`.        *)
(***************************************************************************)
EXTENDS Integers, Sequences, FiniteSets, TLC

VARIABLES
    \* ---- st.cache_data, process wide
    cache,
    \* ---- st.session_state and the widgets of one browser session
    session,
    widgets,
    \* ---- what the last script run did
    run,
    \* ---- the calculator applied on its own (SpecCalc)
    calc_in,
    calc_out,
    \* ---- get_display_currency_rates applied on its own (SpecRates)
    rates_out

vars == <<cache, session, widgets, run, calc_in, calc_out, rates_out>>

---------------------------------------------------------------------------
(* Rational arithmetic standing for Python float arithmetic.               *)

Abs(x) == IF x < 0 THEN -x ELSE x

RECURSIVE Gcd(_, _)
Gcd(a, b) == IF b = 0 THEN a ELSE Gcd(b, a % b)

\* The rational n/d in lowest terms with a positive denominator.
Rat(n, d) ==
    LET g == Gcd(Abs(n), Abs(d))
        s == IF d < 0 THEN -1 ELSE 1
    IN  <<(s * n) \div g, (s * d) \div g>>

Int2Rat(i) == <<i, 1>>

\* The operands are reduced before they are multiplied, so that the
\* intermediate products stay within TLC's integers.
RatAdd(a, b) ==
    LET g == Gcd(a[2], b[2])
    IN  Rat(a[1] * (b[2] \div g) + b[1] * (a[2] \div g), (a[2] \div g) * b[2])
RatNeg(a) == <<-a[1], a[2]>>
RatSub(a, b) == RatAdd(a, RatNeg(b))
RatMul(a, b) ==
    LET g == Gcd(Abs(a[1]), b[2])
        h == Gcd(Abs(b[1]), a[2])
    IN  Rat((a[1] \div g) * (b[1] \div h), (a[2] \div h) * (b[2] \div g))
\* Python raises ZeroDivisionError on a zero divisor; every call below
\* divides by 1 - r with r <= 1/2 or by 100.
RatDiv(a, b) == RatMul(a, Rat(b[2], b[1]))
RatLt(a, b)  ==
    LET g == Gcd(a[2], b[2])
    IN  a[1] * (b[2] \div g) < b[1] * (a[2] \div g)
RatLe(a, b)  == ~RatLt(b, a)
RatAbs(a)    == <<Abs(a[1]), a[2]>>

\* round(x, 3): the nearest multiple of 1/1000, a tie going to the even one.
Round3(x) ==
    LET m == RatMul(x, Int2Rat(1000))
        q == m[1] \div m[2]
        r == m[1] - q * m[2]
        k == IF 2 * r < m[2] THEN q
             ELSE IF 2 * r > m[2] THEN q + 1
             ELSE IF q % 2 = 0 THEN q ELSE q + 1
    IN  Rat(k, 1000)

\* Python's None, a present value, and truthiness (None and 0.0 are falsy).
None == <<>>
Some(x) == <<x>>
IsNone(o) == Len(o) = 0
Val(o) == o[1]
Truthy(o) == ~IsNone(o) /\ Val(o)[1] # 0

---------------------------------------------------------------------------
(* calculate_price_table and the slider's headline figures.                *)

\* The 7 fixed ratios, in percent.
RatioPercents == <<10, 15, 20, 25, 30, 35, 50>>

\* cost if currency == "TWD" else cost * rate
CostTwd(cost, currency, rate) ==
    IF currency = "TWD" THEN cost ELSE RatMul(cost, rate)

\* A variant of SellingPrice: the markup formula cost * (1 + r).
SellingPriceMarkup(cost_twd, r) == RatMul(cost_twd, RatAdd(Int2Rat(1), r))

\* selling_price = cost_twd / (1 - r)
SellingPrice(cost_twd, r) == RatDiv(cost_twd, RatSub(Int2Rat(1), r))

\* A variant of RowTotalProfit: the quantity is left out.
RowTotalProfitNoQuantity(selling_price, cost_twd, quantity) ==
    Round3(RatSub(selling_price, cost_twd))

\* round((selling_price - cost_twd) * quantity, 3)
RowTotalProfit(selling_price, cost_twd, quantity) ==
    Round3(RatMul(RatSub(selling_price, cost_twd), Int2Rat(quantity)))

\* One appended row of the table, for the ratio p percent.
PriceRow(cost_twd, p, quantity) ==
    LET r == Rat(p, 100)
        selling_price == SellingPrice(cost_twd, r)
    IN  [ ratio   |-> r,
          label   |-> p,
          price   |-> Round3(selling_price),
          unit    |-> Round3(RatSub(selling_price, cost_twd)),
          total   |-> RowTotalProfit(selling_price, cost_twd, quantity) ]

calculate_price_table(cost, currency, rate, quantity) ==
    LET cost_twd == CostTwd(cost, currency, rate)
    IN  [ df       |-> [i \in 1..Len(RatioPercents) |->
                            PriceRow(cost_twd, RatioPercents[i], quantity)],
          cost_twd |-> cost_twd ]

\* The slider runs from 0.0 to 50.0 in steps of 0.1: tenths of a percent.
SliderMaxTenths == 500

\* profit_ratio / 100 for the slider at k tenths of a percent
ProfitRatioFloat(k) == RatDiv(Rat(k, 10), Int2Rat(100))

\* The headline figures of lines 159-163, kept unrounded by the code.
SliderKpi(cost_twd, k, quantity) ==
    LET profit_ratio_float == ProfitRatioFloat(k)
        selling_price == SellingPrice(cost_twd, profit_ratio_float)
        unit_profit   == RatSub(selling_price, cost_twd)
    IN  [ ratio         |-> profit_ratio_float,
          selling_price |-> selling_price,
          unit_profit   |-> unit_profit,
          total_profit  |-> RatMul(unit_profit, Int2Rat(quantity)) ]

---------------------------------------------------------------------------
(* st.cache_data: one entry per cached function.  An entry is <<>> when    *)
(* nothing is cached and <<v>> when the return value v is (None included:  *)
(* a returned None is cached like any other value; a raised exception is   *)
(* not).                                                                   *)

Absent == <<>>
EmptyCache == [bank |-> Absent, ecb |-> Absent, yahoo |-> Absent, display |-> Absent]

\* A cached call: the entry if there is one, else the function's own result.
\* r is [raised, ret] of the uncached body; http tells whether the body ran.
CachedCall(entry, r) ==
    IF entry # Absent
    THEN [raised |-> "none", ret |-> entry[1], entry |-> entry, http |-> FALSE]
    ELSE [raised |-> r.raised, ret |-> r.ret,
          entry  |-> IF r.raised = "none" THEN <<r.ret>> ELSE Absent,
          http   |-> TRUE]

---------------------------------------------------------------------------
(* get_tw_bank_usd_rate.                                                   *)

BankFailures == {"network_error", "http_error", "no_usd_row", "missing_cell", "unparsable"}

\* The statements inside the try block, for what the GET yields.
BankTryBody(page) ==
    CASE page.kind = "network_error" -> [raised |-> "ConnectionError", ret |-> None]
      [] page.kind = "http_error"    -> [raised |-> "HTTPError", ret |-> None]
      [] page.kind = "no_usd_row"    -> [raised |-> "none", ret |-> None]
      [] page.kind = "missing_cell"  -> [raised |-> "IndexError", ret |-> None]
      [] page.kind = "unparsable"    -> [raised |-> "ValueError", ret |-> None]
      [] OTHER                       -> [raised |-> "none", ret |-> Some(page.cell)]

\* A variant of ExceptException: only the requests library's errors are caught.
ExceptRequestsOnly(exc) == exc \in {"ConnectionError", "HTTPError"}

\* except Exception: every exception the body can raise is one.
ExceptException(exc) ==
    exc \in {"ConnectionError", "HTTPError", "IndexError", "ValueError",
             "KeyError", "TypeError", "ParseError"}

\* try: ... except Exception: pass; return None
BankExcept(t) ==
    IF t.raised # "none" /\ ExceptException(t.raised)
    THEN [raised |-> "none", ret |-> None]
    ELSE t

BankUncached(page) == BankExcept(BankTryBody(page))

BankStore(c, r) ==
    [raised |-> r.raised, ret |-> r.ret, http |-> r.http,
     cache  |-> [c EXCEPT !.bank = r.entry]]

get_tw_bank_usd_rate(c, page) == BankStore(c, CachedCall(c.bank, BankUncached(page)))

---------------------------------------------------------------------------
(* get_ecb_rates, get_yahoo_rate and get_display_currency_rates.           *)

\* rates keyed by currency, EUR base; any failure of the GET, the status    
\* check, the XML parse or float() raises.
EcbUncached(src) ==
    IF src.kind = "ok" THEN [raised |-> "none", ret |-> src.table]
    ELSE [raised |-> "ConnectionError", ret |-> src.table]

EcbStore(c, r) ==
    [raised |-> r.raised, ret |-> r.ret, cache |-> [c EXCEPT !.ecb = r.entry]]

get_ecb_rates(c, src) == EcbStore(c, CachedCall(c.ecb, EcbUncached(src)))

YahooUncached(src) ==
    IF src.kind = "ok" THEN [raised |-> "none", ret |-> src.price]
    ELSE [raised |-> "ConnectionError", ret |-> src.price]

YahooStore(c, r) ==
    [raised |-> r.raised, ret |-> r.ret, cache |-> [c EXCEPT !.yahoo = r.entry]]

get_yahoo_rate(c, src) == YahooStore(c, CachedCall(c.yahoo, YahooUncached(src)))

\* ecb.get(cur, 0)
EcbGet(ecb, cur) == IF cur \in DOMAIN ecb THEN ecb[cur] ELSE Int2Rat(0)

TwdOnly == [cur \in {"TWD"} |-> Int2Rat(1)]

\* rates["EUR"], rates["USD"], rates["JPY"] from the quote and the table
ComposeRates(eur_twd, ecb) ==
    [cur \in {"TWD", "EUR", "USD", "JPY"} |->
        CASE cur = "TWD" -> Int2Rat(1)
          [] cur = "EUR" -> eur_twd
          [] OTHER       -> RatMul(eur_twd, EcbGet(ecb, cur))]

\* The try block after get_ecb_rates() returned e: the quote, then the
\* three assignments; an exception of the quote leaves rates as it was.
DisplayAfterQuote(e, y) ==
    IF y.raised # "none"
    THEN [ret |-> TwdOnly, cache |-> y.cache]
    ELSE [ret |-> ComposeRates(y.ret, e.ret), cache |-> y.cache]

\* The try block: an exception of get_ecb_rates() skips the rest of it, the
\* quote included.
DisplayAfterEcb(e, ysrc) ==
    IF e.raised # "none"
    THEN [ret |-> TwdOnly, cache |-> e.cache]
    ELSE DisplayAfterQuote(e, get_yahoo_rate(e.cache, ysrc))

\* The body of get_display_currency_rates: one try block around both
\* fetches and the three assignments.
DisplayUncached(c, esrc, ysrc) == DisplayAfterEcb(get_ecb_rates(c, esrc), ysrc)

DisplayStore(d) ==
    [ret |-> d.ret, cache |-> [d.cache EXCEPT !.display = <<d.ret>>], fresh |-> TRUE]

get_display_currency_rates(c, esrc, ysrc) ==
    IF c.display # Absent
    THEN [ret |-> c.display[1], cache |-> c, fresh |-> FALSE]
    ELSE DisplayStore(DisplayUncached(c, esrc, ysrc))

---------------------------------------------------------------------------
(* The page script, lines 118-209: one run from top to bottom.             *)

\* get_tw_bank_usd_rate() or 32.0
DefaultUsdRate == 32
\* value=100 of the quantity input
QuantityDefault == 100
\* the slider's initial value 20.0, in tenths of a percent
SliderDefaultTenths == 200

\* Widget values of a session that has just opened the page.
DefaultWidgets ==
    [ cost |-> Rat(13, 10), currency |-> "USD", rate_edit |-> None,
      quantity |-> QuantityDefault, slider |-> SliderDefaultTenths,
      display_currency |-> "TWD" ]

\* No GET was issued.
NoResponse == [kind |-> "none", cell |-> Int2Rat(0)]

NoFetch == [called |-> FALSE, http |-> FALSE, page |-> NoResponse, ret |-> None]

NoRun ==
    [ phase |-> "idle", clicked |-> FALSE, rerun_of |-> None,
      init |-> NoFetch, click |-> NoFetch, rate_at_click |-> None,
      calc_args |-> <<>>, cost_twd |-> None, kpi |-> <<>>,
      display_rate |-> None, warnings |-> {}, error |-> "none" ]

\* st.session_state.usd_rate = get_tw_bank_usd_rate() or 32.0
InitialUsdRate(ret) == IF Truthy(ret) THEN ret ELSE Some(Int2Rat(DefaultUsdRate))

\* A variant of RefreshClear: the cache is left as it is.
RefreshKeepCache(c) == c

\* st.cache_data.clear(): every cached function's entries go.
RefreshClear(c) == EmptyCache

\* A variant of RefreshAssign: the assignment is not guarded.
RefreshAssignAlways(usd_rate, new_rate) == new_rate

\* if new_rate: st.session_state.usd_rate = new_rate
RefreshAssign(usd_rate, new_rate) == IF Truthy(new_rate) THEN new_rate ELSE usd_rate

\* A variant of CostIsValid: zero passes.
CostIsValidOrZero(cost) == RatLe(Int2Rat(0), cost)

\* if cost > 0:
CostIsValid(cost) == RatLt(Int2Rat(0), cost)

\* The value the rate input returns: what the user typed, else its default,
\* the session's rate.  The input has no min_value.
RateInput(w, usd_rate) == IF IsNone(w.rate_edit) THEN Val(usd_rate) ELSE Val(w.rate_edit)

\* The calculation branch, lines 155-207, with the table's cost_twd and the
\* display rates d at hand.  calc_args are the arguments of the call of
\* calculate_price_table and cost_twd the second component of its result;
\* the table itself is the subject of SpecCalc.
CalcBranch(w, rate, cost_twd, d) ==
    [ calc_args    |-> <<[cost |-> w.cost, currency |-> w.currency,
                          rate |-> rate, quantity |-> w.quantity]>>,
      cost_twd     |-> Some(cost_twd),
      kpi          |-> <<SliderKpi(cost_twd, w.slider, w.quantity)>>,
      display_rate |-> IF w.display_currency \in DOMAIN d.ret
                       THEN Some(d.ret[w.display_currency])
                       ELSE Some(Int2Rat(1)),
      warnings     |-> IF w.display_currency \in DOMAIN d.ret
                       THEN {} ELSE {"no_display_rate"},
      cache        |-> d.cache,
      widgets      |-> w ]

\* Lines 154-209 with the inputs read: the calculation branch or the warning.
Calculation(w, rate, c, esrc, ysrc) ==
    IF CostIsValid(w.cost)
    THEN CalcBranch(w, rate, CostTwd(w.cost, w.currency, rate),
                    get_display_currency_rates(c, esrc, ysrc))
    ELSE [ calc_args |-> <<>>, cost_twd |-> None, kpi |-> <<>>,
           display_rate |-> None, warnings |-> {"invalid_cost"}, cache |-> c,
           \* widgets the run did not render lose their state
           widgets |-> [w EXCEPT !.slider = SliderDefaultTenths,
                                 !.display_currency = "TWD"] ]

\* What a call of get_tw_bank_usd_rate did: f is its result, page what the
\* GET yielded when one was issued.
FetchLog(f, page) ==
    [called |-> TRUE, http |-> f.http,
     page |-> IF f.http THEN page ELSE NoResponse, ret |-> f.ret]

\* Lines 130-131 with the call's result f.
InitFrom(f, page) ==
    [raised |-> f.raised, usd_rate |-> InitialUsdRate(f.ret), cache |-> f.cache,
     log |-> FetchLog(f, page)]

\* if "usd_rate" not in st.session_state: ...
InitRate(sess, c, page) ==
    IF IsNone(sess.usd_rate)
    THEN InitFrom(get_tw_bank_usd_rate(c, page), page)
    ELSE [raised |-> "none", usd_rate |-> sess.usd_rate, cache |-> c, log |-> NoFetch]

\* Lines 148-151 with the call's result f: the guarded assignment, and
\* st.rerun() when it was made.
RefreshFrom(usd_rate, f, page) ==
    [raised |-> f.raised, usd_rate |-> RefreshAssign(usd_rate, f.ret),
     rerun |-> Truthy(f.ret), cache |-> f.cache, log |-> FetchLog(f, page),
     rate_at_click |-> usd_rate]

\* if st.button(...): st.cache_data.clear(); new_rate = get_tw_bank_usd_rate()
Refresh(usd_rate, c, clicked, page) ==
    IF clicked
    THEN RefreshFrom(usd_rate, get_tw_bank_usd_rate(RefreshClear(c), page), page)
    ELSE [raised |-> "none", usd_rate |-> usd_rate, rerun |-> FALSE, cache |-> c,
          log |-> NoFetch, rate_at_click |-> None]

RunBase(clicked, rerun_of, i, r) ==
    [NoRun EXCEPT !.clicked = clicked, !.rerun_of = rerun_of, !.init = i.log,
                  !.click = r.log, !.rate_at_click = r.rate_at_click]

\* The end of a run that reached line 154.
ScriptCalc(sess, w, clicked, rerun_of, i, r, k) ==
    [ session |-> [sess EXCEPT !.usd_rate = r.usd_rate],
      cache   |-> k.cache,
      widgets |-> k.widgets,
      run     |-> [RunBase(clicked, rerun_of, i, r) EXCEPT
                      !.phase = "done", !.calc_args = k.calc_args,
                      !.cost_twd = k.cost_twd, !.kpi = k.kpi,
                      !.display_rate = k.display_rate, !.warnings = k.warnings] ]

\* The run from line 146 on, i being what lines 130-131 did.
ScriptRefresh(sess, w, clicked, rerun_of, i, r, esrc, ysrc) ==
    IF r.raised # "none"
    THEN [ session |-> [sess EXCEPT !.usd_rate = i.usd_rate], cache |-> r.cache,
           widgets |-> w,
           run |-> [RunBase(clicked, rerun_of, i, r) EXCEPT
                       !.phase = "error", !.error = r.raised] ]
    ELSE IF r.rerun
    THEN \* st.rerun(): the run stops here and the script starts again; the
         \* rate input's default changed, so it is a new widget
         [ session |-> [sess EXCEPT !.usd_rate = r.usd_rate], cache |-> r.cache,
           widgets |-> [w EXCEPT !.rate_edit =
                           IF r.usd_rate = i.usd_rate THEN w.rate_edit ELSE None],
           run |-> [RunBase(clicked, rerun_of, i, r) EXCEPT !.phase = "rerun"] ]
    ELSE ScriptCalc(sess, w, clicked, rerun_of, i, r,
                    Calculation(w, RateInput(w, i.usd_rate), r.cache, esrc, ysrc))

\* The run from line 133 on.
ScriptInit(sess, w, clicked, rerun_of, i, page, esrc, ysrc) ==
    IF i.raised # "none"
    THEN [ session |-> sess, cache |-> i.cache, widgets |-> w,
           run |-> [NoRun EXCEPT !.clicked = clicked, !.rerun_of = rerun_of,
                                 !.init = i.log, !.phase = "error",
                                 !.error = i.raised] ]
    ELSE ScriptRefresh(sess, w, clicked, rerun_of, i,
                       Refresh(i.usd_rate, i.cache, clicked, page), esrc, ysrc)

\* One run of the script with widget values w; clicked: the refresh button
\* returned True; rerun_of: the new rate of the st.rerun() that started it;
\* page, esrc, ysrc: what the GETs yield.
Script(sess, w, clicked, rerun_of, page, esrc, ysrc) ==
    ScriptInit(sess, w, clicked, rerun_of, InitRate(sess, cache, page), page, esrc, ysrc)

---------------------------------------------------------------------------
(* The values the model draws inputs from.                                 *)

\* the calculator is applied to the quantities 1..MaxQuantity
MaxQuantity == 3

Costs == {Int2Rat(0), Rat(13, 10)}
Currencies == {"USD", "TWD"}
RateEdits == {Int2Rat(-1), Int2Rat(30)}
Quantities == {1, QuantityDefault}
SliderStops == {0, SliderDefaultTenths}
\* the page is run with two of the four options of the display currency box
DisplayCurrencies == {"TWD", "JPY"}

BankCells == {Int2Rat(0), Int2Rat(31), Int2Rat(33)}
BankPages ==
    {[kind |-> k, cell |-> Int2Rat(0)] : k \in BankFailures}
        \cup {[kind |-> "ok", cell |-> v] : v \in BankCells}

\* ECB tables: units of the currency per 1 EUR; a currency may be missing.
FullEcbTable == [cur \in {"USD", "JPY"} |-> IF cur = "USD" THEN Rat(11, 10) ELSE Int2Rat(160)]
EcbTables ==
    { FullEcbTable,
      [cur \in {"USD"} |-> Rat(11, 10)],
      [cur \in {"USD", "JPY"} |-> IF cur = "USD" THEN Int2Rat(1) ELSE Int2Rat(160)] }
NoEcb == [kind |-> "fails", table |-> <<>>]
EcbSources == {NoEcb} \cup {[kind |-> "ok", table |-> t] : t \in EcbTables}
\* The page is run against one ECB table.
PageEcbSources == {NoEcb, [kind |-> "ok", table |-> FullEcbTable]}
NoYahoo == [kind |-> "fails", price |-> Int2Rat(0)]
YahooSources == {NoYahoo, [kind |-> "ok", price |-> Int2Rat(35)]}
\* SpecRates draws the quote from two values.
QuoteSources == YahooSources \cup {[kind |-> "ok", price |-> Int2Rat(36)]}

NoCalc == [cost |-> Int2Rat(1), currency |-> "TWD", rate |-> Int2Rat(1), quantity |-> 1]
NoCalcOut == [kind |-> "none", cost_twd |-> Int2Rat(0), df |-> <<>>, slider |-> 0, kpi |-> <<>>]
NoRatesOut ==
    [ applied |-> FALSE, fresh |-> FALSE, ret |-> TwdOnly, ecb_ok |-> FALSE,
      quote_ok |-> FALSE, ecb |-> <<>>, eur_twd |-> Int2Rat(0) ]

\* What the calculator is applied to in SpecCalc.
CalcCosts == {Rat(1, 1000), Int2Rat(1), Rat(13, 10), Int2Rat(100)}
CalcRates == {Int2Rat(-1), Rat(63, 2), Int2Rat(32)}
CalcInputs ==
    [ cost : CalcCosts, currency : Currencies, rate : CalcRates,
      quantity : 1..MaxQuantity ]

---------------------------------------------------------------------------
(* The page: a session opens it, the user changes one widget at a time,    *)
(* each change runs the script; the world and the cache move on their own. *)

Init ==
    /\ cache = EmptyCache
    /\ session = [usd_rate |-> None]
    /\ widgets = DefaultWidgets
    /\ run = NoRun
    /\ calc_in = NoCalc
    /\ calc_out = NoCalcOut
    /\ rates_out = NoRatesOut

\* The bank page is requested on the first run of a session when nothing is
\* cached, and on every click (the cache has just been cleared).
BankResponses(sess, clicked) ==
    IF clicked \/ (IsNone(sess.usd_rate) /\ cache.bank = Absent)
    THEN BankPages ELSE {NoResponse}

\* The ECB table and the quote are requested in the calculation branch when
\* the display rates are not cached (a click has cleared them).
RatesRequested(w, clicked) ==
    CostIsValid(w.cost) /\ (clicked \/ cache.display = Absent)

EcbResponses(w, clicked) ==
    IF RatesRequested(w, clicked) /\ (clicked \/ cache.ecb = Absent)
    THEN PageEcbSources ELSE {NoEcb}

YahooResponses(w, clicked) ==
    IF RatesRequested(w, clicked) /\ (clicked \/ cache.yahoo = Absent)
    THEN YahooSources ELSE {NoYahoo}

RunScript(sess, w, clicked, rerun_of) ==
    \E page \in BankResponses(sess, clicked),
       esrc \in EcbResponses(w, clicked), ysrc \in YahooResponses(w, clicked) :
    \E s \in {Script(sess, w, clicked, rerun_of, page, esrc, ysrc)} :
        /\ session' = s.session
        /\ cache' = s.cache
        /\ widgets' = s.widgets
        /\ run' = s.run
        /\ UNCHANGED <<calc_in, calc_out, rates_out>>

\* A browser opens the page: a new session, every widget at its default.
OpenPage ==
    /\ run.phase # "rerun"
    /\ RunScript([usd_rate |-> None], DefaultWidgets, FALSE, None)

Displayed == run.phase = "done"

SetCost ==
    /\ Displayed
    /\ \E c \in Costs : RunScript(session, [widgets EXCEPT !.cost = c], FALSE, None)

SetCurrency ==
    /\ Displayed
    /\ \E c \in Currencies : RunScript(session, [widgets EXCEPT !.currency = c], FALSE, None)

\* disabled=(currency == "TWD")
EditRate ==
    /\ Displayed
    /\ widgets.currency # "TWD"
    /\ \E v \in RateEdits :
          RunScript(session, [widgets EXCEPT !.rate_edit = Some(v)], FALSE, None)

SetQuantity ==
    /\ Displayed
    /\ \E q \in Quantities : RunScript(session, [widgets EXCEPT !.quantity = q], FALSE, None)

\* The slider and the display currency box exist only in the calculation branch.
MoveSlider ==
    /\ Displayed
    /\ CostIsValid(widgets.cost)
    /\ \E k \in SliderStops : RunScript(session, [widgets EXCEPT !.slider = k], FALSE, None)

SelectDisplayCurrency ==
    /\ Displayed
    /\ CostIsValid(widgets.cost)
    /\ \E d \in DisplayCurrencies :
          RunScript(session, [widgets EXCEPT !.display_currency = d], FALSE, None)

ClickRefresh ==
    /\ Displayed
    /\ RunScript(session, widgets, TRUE, None)

\* The run st.rerun() asked for: same widgets, the button back to False.
Rerun ==
    /\ run.phase = "rerun"
    /\ RunScript(session, widgets, FALSE, run.click.ret)

\* ttl=3600: an entry older than an hour is gone.
CacheExpires ==
    /\ \E f \in DOMAIN cache : cache[f] # Absent /\ cache' = [cache EXCEPT ![f] = Absent]
    /\ UNCHANGED <<session, widgets, run, calc_in, calc_out, rates_out>>

Next ==
    \/ OpenPage
    \/ SetCost
    \/ SetCurrency
    \/ EditRate
    \/ SetQuantity
    \/ MoveSlider
    \/ SelectDisplayCurrency
    \/ ClickRefresh
    \/ Rerun
    \/ CacheExpires

Spec == Init /\ [][Next]_vars

---------------------------------------------------------------------------
(* The calculator on its own: calculate_price_table and the slider's       *)
(* figures applied once to inputs drawn from CalcInputs.                   *)

PageIdle ==
    /\ cache = EmptyCache
    /\ session = [usd_rate |-> None]
    /\ widgets = DefaultWidgets
    /\ run = NoRun

InitCalc ==
    /\ PageIdle
    /\ rates_out = NoRatesOut
    /\ calc_in \in CalcInputs
    /\ calc_out = NoCalcOut

\* df_result, cost_twd = calculate_price_table(cost, currency, rate, quantity),
\* which the page calls only with cost > 0.
BuildTable ==
    /\ calc_out.kind = "none"
    /\ CostIsValid(calc_in.cost)
    /\ \E t \in {calculate_price_table(calc_in.cost, calc_in.currency,
                                       calc_in.rate, calc_in.quantity)} :
          calc_out' = [kind |-> "table", cost_twd |-> t.cost_twd, df |-> t.df,
                       slider |-> 0, kpi |-> <<>>]
    /\ UNCHANGED <<cache, session, widgets, run, calc_in, rates_out>>

\* Lines 158-163 for one position of the slider.
SlideKpi ==
    /\ calc_out.kind = "none"
    /\ CostIsValid(calc_in.cost)
    /\ \E k \in 0..SliderMaxTenths :
       \E c \in {CostTwd(calc_in.cost, calc_in.currency, calc_in.rate)} :
          calc_out' = [kind |-> "kpi", cost_twd |-> c, df |-> <<>>, slider |-> k,
                       kpi |-> <<SliderKpi(c, k, calc_in.quantity)>>]
    /\ UNCHANGED <<cache, session, widgets, run, calc_in, rates_out>>

NextCalc ==
    \/ BuildTable
    \/ SlideKpi

SpecCalc == InitCalc /\ [][NextCalc]_vars

---------------------------------------------------------------------------
(* get_display_currency_rates on its own, against every ECB table and      *)
(* quote of EcbSources and YahooSources.                                   *)

InitRates ==
    /\ PageIdle
    /\ rates_out = NoRatesOut
    /\ calc_in = NoCalc
    /\ calc_out = NoCalcOut

\* What get_ecb_rates() and get_yahoo_rate() have to give when called now.
EcbNow(esrc) == IF cache.ecb # Absent THEN <<cache.ecb[1]>> ELSE
                IF esrc.kind = "ok" THEN <<esrc.table>> ELSE <<>>
QuoteNow(ysrc) == IF cache.yahoo # Absent THEN <<cache.yahoo[1]>> ELSE
                  IF ysrc.kind = "ok" THEN <<ysrc.price>> ELSE <<>>

\* DISPLAY_CURRENCY_RATES = get_display_currency_rates()
FetchDisplayRates ==
    /\ \E esrc \in EcbSources, ysrc \in QuoteSources :
       \E d \in {get_display_currency_rates(cache, esrc, ysrc)} :
          /\ cache' = d.cache
          /\ rates_out' =
                [ applied |-> TRUE, fresh |-> d.fresh, ret |-> d.ret,
                  ecb_ok |-> EcbNow(esrc) # <<>>,
                  quote_ok |-> QuoteNow(ysrc) # <<>>,
                  ecb |-> IF EcbNow(esrc) # <<>> THEN EcbNow(esrc)[1] ELSE <<>>,
                  eur_twd |-> IF QuoteNow(ysrc) # <<>> THEN QuoteNow(ysrc)[1]
                              ELSE Int2Rat(0) ]
    /\ UNCHANGED <<session, widgets, run, calc_in, calc_out>>

\* st.cache_data.clear()
ClearCache ==
    /\ cache' = RefreshClear(cache)
    /\ UNCHANGED <<session, widgets, run, calc_in, calc_out, rates_out>>

NextRates ==
    \/ FetchDisplayRates
    \/ CacheExpires
    \/ ClearCache

SpecRates == InitRates /\ [][NextRates]_vars

---------------------------------------------------------------------------
(* Properties.                                                             *)

Zero == Int2Rat(0)

\* A call of get_tw_bank_usd_rate whose GET failed in one of the five ways.
FailedFetch(l) == l.called /\ l.http /\ l.page.kind \in BankFailures

\* What the bank page, parsed, amounts to.
Parsed(page) == IF page.kind = "ok" THEN Some(page.cell) ELSE None

\* C1: every failure of the bank rate fetch (network error, bad status, no
\* USD row, missing cell, unparsable number) makes get_tw_bank_usd_rate
\* return None, no exception leaves it, and a first page load on which it
\* returned None sets the session's USD rate to the default 32.0.
C1_FetchFailureYieldsNone ==
    /\ run.error = "none"
    /\ run.phase # "error"
    /\ \A l \in {run.init, run.click} : FailedFetch(l) => IsNone(l.ret)
    /\ (run.init.called /\ IsNone(run.init.ret))
          => session.usd_rate = Some(Int2Rat(32))

\* A first page load whose GET returned a page with an unparsable cell.
C1_Witness ==
    /\ run.phase = "done"
    /\ run.init.called /\ run.init.http
    /\ run.init.page.kind = "unparsable"
    /\ IsNone(run.init.ret)
    /\ session.usd_rate = Some(Int2Rat(32))

C4_RefreshFetchesAfterClear ==
    /\ run.click.called =>
          /\ run.click.http
          /\ run.click.ret = Parsed(run.click.page)
    /\ (run.click.called /\ Truthy(run.click.ret)) =>
          /\ run.phase = "rerun"
          /\ session.usd_rate = run.click.ret
    /\ ~IsNone(run.rerun_of) =>
          /\ run.phase = "done"
          /\ session.usd_rate = run.rerun_of

\* The run that follows a click which fetched 33.
C4_Witness ==
    /\ run.phase = "done"
    /\ run.rerun_of = Some(Int2Rat(33))
    /\ session.usd_rate = Some(Int2Rat(33))

\* C4, as the specification states it: whenever the fetch of a refresh click succeeds, the
\* session's USD rate equals the fetched value on the following run of the
\* page in that session.
C4_Original ==
    [][ ( /\ run.click.called /\ ~IsNone(run.click.ret)
          /\ run' # run /\ ~run'.clicked /\ ~run'.init.called )
        => session'.usd_rate = run.click.ret ]_vars

\* C5: a refresh click whose fetch is unavailable leaves the session's USD
\* rate as it was before the click, and once a run has got past line 131
\* the session's USD rate is a number, never None.
C5_FailedRefreshKeepsRate ==
    /\ run.click.called => ~IsNone(run.rate_at_click)
    /\ (run.click.called /\ IsNone(run.click.ret))
          => session.usd_rate = run.rate_at_click
    /\ run.phase \in {"done", "rerun"} => ~IsNone(session.usd_rate)

\* A click whose GET met a network error, the last known rate 31 kept.
C5_Witness ==
    /\ run.phase = "done"
    /\ run.click.called /\ run.click.page.kind = "network_error"
    /\ run.rate_at_click = Some(Int2Rat(31))
    /\ session.usd_rate = Some(Int2Rat(31))

\* C6: a run in which a bank rate fetch failed shows a warning about it
\* (one other than the cost warning and the display rate warning).
C6_FetchFailureWarned ==
    (\E l \in {run.init, run.click} : FailedFetch(l)) =>
        \E m \in run.warnings : m \notin {"invalid_cost", "no_display_rate"}

\* C9: the rate handed to calculate_price_table with currency USD is
\* strictly positive, and so is cost_twd.
C9_RatePositive ==
    (run.calc_args # <<>> /\ run.calc_args[1].currency = "USD") =>
        /\ RatLt(Zero, run.calc_args[1].rate)
        /\ RatLt(Zero, Val(run.cost_twd))

\* C3: the two fetches of get_display_currency_rates fail independently;
\* a computed map holds the EUR rate whenever the EUR/TWD quote is to be
\* had, whether or not the ECB table is.
C3_IndependentSteps ==
    (rates_out.applied /\ rates_out.fresh /\ rates_out.quote_ok)
        => "EUR" \in DOMAIN rates_out.ret

\* C10: in a computed map the entry of USD and of JPY is TWD per unit: the
\* quote divided by the ECB rate (entry * e_c = q), strictly positive; a
\* currency the ECB table lacks has no entry.
C10_TwdPerUnit ==
    (rates_out.applied /\ rates_out.fresh /\ rates_out.ecb_ok /\ rates_out.quote_ok) =>
        \A c \in {"USD", "JPY"} :
            IF c \in DOMAIN rates_out.ecb
            THEN /\ c \in DOMAIN rates_out.ret
                 /\ RatMul(rates_out.ret[c], rates_out.ecb[c]) = rates_out.eur_twd
                 /\ RatLt(Zero, rates_out.ret[c])
            ELSE c \notin DOMAIN rates_out.ret

TableBuilt == calc_out.kind = "table"
Quantity == Int2Rat(calc_in.quantity)
Thousandth == Rat(1, 1000)

\* cost_twd * p / (100 - p): the unit profit at p percent, not rounded.
ExactUnitProfit(p) == RatMul(calc_out.cost_twd, Rat(p, 100 - p))

\* C7, as the code has it: a row's total profit is the unit profit before rounding
\* times the quantity, rounded to 3 decimals; it is within
\* 0.0005 * (quantity + 1) of the row's rounded unit profit times the
\* quantity, and equal to it when the quantity is 1.
C7_TotalProfitRounded ==
    TableBuilt =>
        \A i \in DOMAIN calc_out.df :
            LET row == calc_out.df[i]
            IN  /\ row.total = Round3(RatMul(ExactUnitProfit(row.label), Quantity))
                /\ RatLe(RatMul(Int2Rat(2),
                                RatAbs(RatSub(row.total, RatMul(row.unit, Quantity)))),
                         RatMul(Thousandth, Int2Rat(calc_in.quantity + 1)))
                /\ calc_in.quantity = 1 => row.total = row.unit

\* A table for a quantity above 1 with a row whose total profit is not its
\* unit profit times the quantity.
C7_Witness ==
    /\ TableBuilt
    /\ calc_in.quantity > 1
    /\ \E i \in DOMAIN calc_out.df :
          calc_out.df[i].total # RatMul(calc_out.df[i].unit, Quantity)

\* C7, as the specification states it: in every row the total profit equals the unit profit
\* the row carries times the quantity, exactly.
C7_Original ==
    TableBuilt =>
        \A i \in DOMAIN calc_out.df :
            calc_out.df[i].total = RatMul(calc_out.df[i].unit, Quantity)

CostTwdPositive == RatLt(Zero, calc_out.cost_twd)

\* C8, as the code has it: for cost_twd > 0 the selling price is cost_twd / (1 - r),
\* that is selling_price * (1 - r) = cost_twd: in the table, for each of the
\* 7 ratios, the row carries that price rounded to 3 decimals, a price above
\* cost_twd before rounding; for the slider the price is at least cost_twd,
\* above it when r > 0 and equal to it at 0%.
C8_MarginPrice ==
    /\ (TableBuilt /\ CostTwdPositive) =>
          /\ Len(calc_out.df) = 7
          /\ \A i \in DOMAIN calc_out.df :
                LET row == calc_out.df[i]
                    exact == RatMul(calc_out.cost_twd, Rat(100, 100 - row.label))
                IN  /\ row.ratio = Rat(RatioPercents[i], 100)
                    /\ row.price = Round3(exact)
                    /\ RatLt(calc_out.cost_twd, exact)
    /\ (calc_out.kind = "kpi" /\ CostTwdPositive) =>
          LET kpi == calc_out.kpi[1]
          IN  /\ kpi.ratio = Rat(calc_out.slider, 1000)
              /\ RatMul(kpi.selling_price, RatSub(Int2Rat(1), kpi.ratio))
                    = calc_out.cost_twd
              /\ RatLe(calc_out.cost_twd, kpi.selling_price)
              /\ calc_out.slider > 0 => RatLt(calc_out.cost_twd, kpi.selling_price)
              /\ calc_out.slider = 0 => kpi.selling_price = calc_out.cost_twd

\* The slider at 0% with a positive cost_twd: the price is the cost.
C8_Witness ==
    /\ calc_out.kind = "kpi"
    /\ CostTwdPositive
    /\ calc_out.slider = 0
    /\ calc_out.kpi[1].selling_price = calc_out.cost_twd

\* C8, as the specification states it: for cost_twd > 0 and every slider value from 0% to
\* 50% the selling price is strictly greater than cost_twd.
C8_Original ==
    (calc_out.kind = "kpi" /\ CostTwdPositive)
        => RatLt(calc_out.cost_twd, calc_out.kpi[1].selling_price)

=============================================================================
